---- MODULE Spec2Model ----
(***************************************************************************)
(* Model of the smarthealthcard package: src/smarthealthcard/__init__.py   *)
(* (canonical JSON, JWK adapter, SmartHealthCard) and                      *)
(* src/smarthealthcard/utils.py (SmartHealthCardURI).                       *)
(*                                                                         *)
(* Text is modelled as sequences of code points, bytes objects as          *)
(* sequences of 0..255, and Python ints too large for TLC (curve           *)
(* coordinates, signature components) by their minimal big-endian byte     *)
(* strings.  An optional argument is a sequence of length 0 (None) or 1.   *)
(***************************************************************************)
EXTENDS Integers, Sequences, FiniteSets, TLC

VARIABLES
    op,          \* the last call made on the objects
    exc,         \* the exception that call raised ("" when it returned)
    token,       \* what str(self.shc) returns to SmartHealthCardURI
    uri_str,     \* the value of the last str(SmartHealthCardURI)
    chunks_arg,  \* the `chunks` argument of the last iterchunks call
    chunks_out,  \* the strings that call yielded, in order
    private_key, \* the ec private key handed to JWK(...)
    jwk,         \* the JWK object, once constructed
    payload,     \* SmartHealthCard.payload
    kid,         \* the value of the last JWK.thumbprint()
    jwk_dict,    \* the dict last returned by JWK.payload, JWK.export or header
    signature,   \* the bytes last returned by JWK.sign or passed to JWK.verify
    encoded,     \* the last json_encoder.encode(self.payload)
    compressed,  \* the last SmartHealthCard._compressed_payload()
    prev         \* what the call before the last one returned

uriVars == <<token, uri_str, chunks_arg, chunks_out>>
cardVars == <<private_key, jwk, payload, kid, jwk_dict, signature, encoded, compressed, prev>>
vars == <<op, exc, token, uri_str, chunks_arg, chunks_out, private_key, jwk, payload,
          kid, jwk_dict, signature, encoded, compressed, prev>>

\* ------------------------------------------------------------------ bounds
\* Longest token SmartHealthCardURI is handed in Spec.
MaxTokenLen == 3
\* How far outside 1..len(uri) the chunk counts passed to iterchunks range.
MaxExcess == 2
\* Longest token of SpecDefault (its digit string is twice as long).
MaxBigTokenLen == 1200
\* Private scalars 1..MaxScalar of the keys tried.
MaxScalar == 2
\* Nonces 1..MaxNonce the signing library may draw.
MaxNonce == 2
\* Most keys of a payload dict in SpecJson.
MaxKeys == 3
\* Largest explicit chunk count passed to iterchunks in SpecCard.
MaxCardChunks == 2

\* No key, JWK or card is involved.
NoKey == [curve |-> "", d |-> 0]
NoCall == [op |-> "", token |-> <<>>, uri_str |-> <<>>, chunks_arg |-> <<>>, chunks_out |-> <<>>]
EmptyDict == [t |-> "dict", n |-> 0, s |-> <<>>, items |-> <<>>]
NoResults ==
    /\ op = "init"
    /\ exc = ""
    /\ uri_str = <<>>
    /\ chunks_arg = <<>>
    /\ chunks_out = <<>>
    /\ kid = <<>>
    /\ jwk_dict = EmptyDict
    /\ signature = <<>>
    /\ encoded = <<>>
    /\ compressed = <<>>
    /\ prev = NoCall
NoCard ==
    /\ private_key = NoKey
    /\ jwk = <<>>
    /\ payload = EmptyDict

\* ------------------------------------------------------------- text helpers
None == <<>>
Some(x) == <<x>>

Min(a, b) == IF a < b THEN a ELSE b
Max(a, b) == IF a > b THEN a ELSE b

\* The token alphabet: base64url ('A'-'Z', 'a'-'z', '0'-'9', '-', '_') and '.'.
Alphabet == (65..90) \cup (97..122) \cup (48..57) \cup {45, 95, 46}

\* The concatenation of the strings f[lo], ..., f[hi] ("".join).
RECURSIVE JoinRange(_, _, _)
JoinRange(f, lo, hi) ==
    IF lo > hi THEN <<>>
    ELSE IF lo = hi THEN f[lo]
    ELSE LET mid == (lo + hi) \div 2
         IN  JoinRange(f, lo, mid) \o JoinRange(f, mid + 1, hi)

Join(f) == JoinRange(f, 1, Len(f))

\* str(n) of a Python int: decimal digits, '-' first when negative.
RECURSIVE NatStr(_)
NatStr(n) == IF n < 10 THEN <<48 + n>> ELSE NatStr(n \div 10) \o <<48 + (n % 10)>>

IntStr(n) == IF n < 0 THEN <<45>> \o NatStr(0 - n) ELSE NatStr(n)

\* format(n, "02") without the zero fill (format(n, "2") pads with a space).
Format02Unpadded(n) ==
    LET s == IntStr(n) IN IF Len(s) >= 2 THEN s ELSE <<32>> \o s

\* format(n, "02"): sign-aware zero padding to a minimum width of 2.
Format02(n) ==
    LET s == IntStr(n)
    IN  IF Len(s) >= 2 THEN s
        ELSE <<48>> \o s

\* s[a:b] of Python for a str s (negative indices count from the end).
PySlice(s, a, b) ==
    LET n  == Len(s)
        lo == IF a < 0 THEN Max(n + a, 0) ELSE Min(a, n)
        hi == IF b < 0 THEN Max(n + b, 0) ELSE Min(b, n)
    IN  SubSeq(s, lo + 1, hi)

\* math.ceil(a / b) for ints a >= 0 and b # 0.
CeilDiv(a, b) == IF b > 0 THEN 0 - ((0 - a) \div b) ELSE 0 - (a \div (0 - b))

\* --------------------------------------------------------------- utils.py
MAX_CHUNK_SIZE == 1191

ShcPrefix == <<115, 104, 99, 58, 47>>    \* "shc:/"
Slash == <<47>>

\* SmartHealthCardURI._to_uri on the token str(self.shc).
ToUri(tok) == Join([i \in 1..Len(tok) |-> Format02(tok[i] - 45)])

\* SmartHealthCardURI.__str__
UriString(tok) == ShcPrefix \o ToUri(tok)

DefaultChunksFloor(len) == len \div MAX_CHUNK_SIZE

\* chunks = ceil(len(uri) / MAX_CHUNK_SIZE), the default of iterchunks.
DefaultChunks(len) == CeilDiv(len, MAX_CHUNK_SIZE)

ChunkSizeFloor(len, chunks) ==
    IF chunks > 0 THEN len \div chunks ELSE 0 - ((0 - len) \div chunks)

\* chunk_size = ceil(len(uri) / chunks), for chunks # 0.
ChunkSize(len, chunks) == CeilDiv(len, chunks)

\* One yielded string: f"shc:/{i + 1}/{chunks}/{uri[i * size: (i + 1) * size]}".
ChunkString(uri, chunks, size, i) ==
    ShcPrefix \o IntStr(i + 1) \o Slash \o IntStr(chunks) \o Slash
        \o PySlice(uri, i * size, (i + 1) * size)

\* list(SmartHealthCardURI.iterchunks(chunks)) on the digit string uri: the
\* strings yielded and the exception that ends the iteration, if any.
iterchunks(uri, arg) ==
    LET chunks == IF arg = None THEN DefaultChunks(Len(uri)) ELSE arg[1]
    IN  IF chunks = 0
        THEN [exc |-> "ZeroDivisionError", out |-> <<>>]
        ELSE LET size == ChunkSize(Len(uri), chunks)
             IN  [exc |-> "",
                  out |-> [i \in 1..Max(chunks, 0) |->
                              ChunkString(uri, chunks, size, i - 1)]]

\* The k-th character (from 0) of the base64url alphabet, and '.' for k = 64.
Base64UrlChar(k) ==
    IF k < 26 THEN 65 + k
    ELSE IF k < 52 THEN 97 + (k - 26)
    ELSE IF k < 62 THEN 48 + (k - 52)
    ELSE IF k = 62 THEN 45
    ELSE IF k = 63 THEN 95
    ELSE 46

\* ------------------------------------------------------------- json (stdlib)
\* A JSON-serialisable Python value: an int, a str, a dict (its items in
\* insertion order, keys str) or a list (its elements, under empty keys).
JInt(n) == [t |-> "int", n |-> n, s |-> <<>>, items |-> <<>>]
JStr(s) == [t |-> "str", n |-> 0, s |-> s, items |-> <<>>]
JDict(items) == [t |-> "dict", n |-> 0, s |-> <<>>, items |-> items]
JList(elems) ==
    [t |-> "list", n |-> 0, s |-> <<>>,
     items |-> [i \in 1..Len(elems) |-> [k |-> <<>>, v |-> elems[i]]]]
Item(k, v) == [k |-> k, v |-> v]

\* a < b for two str, as Python compares them (by code point).
RECURSIVE StrLess(_, _)
StrLess(a, b) ==
    IF Len(b) = 0 THEN FALSE
    ELSE IF Len(a) = 0 THEN TRUE
    ELSE IF a[1] # b[1] THEN a[1] < b[1]
    ELSE StrLess(Tail(a), Tail(b))

\* list.sort: an item goes before the first item with a greater key.
RECURSIVE InsertItem(_, _)
InsertItem(x, sorted) ==
    IF Len(sorted) = 0 THEN <<x>>
    ELSE IF StrLess(x.k, sorted[1].k) THEN <<x>> \o sorted
    ELSE <<sorted[1]>> \o InsertItem(x, Tail(sorted))

RECURSIVE SortedItems(_)
SortedItems(items) ==
    IF Len(items) = 0 THEN <<>>
    ELSE InsertItem(items[Len(items)], SortedItems(SubSeq(items, 1, Len(items) - 1)))

\* The order in which an encoder without sort_keys walks a dict.
DictItemsUnsorted(items) == items

\* sort_keys=True: the order in which the encoder walks a dict's items.
DictItems(items) == SortedItems(items)

HexDigit(d) == IF d < 10 THEN 48 + d ELSE 87 + d

\* One character of a str inside a JSON string (ensure_ascii).
EscapeChar(c) ==
    IF c = 34 THEN <<92, 34>>
    ELSE IF c = 92 THEN <<92, 92>>
    ELSE IF c = 10 THEN <<92, 110>>
    ELSE IF c = 13 THEN <<92, 114>>
    ELSE IF c = 9 THEN <<92, 116>>
    ELSE IF c = 8 THEN <<92, 98>>
    ELSE IF c = 12 THEN <<92, 102>>
    ELSE IF c < 32 \/ c > 126
         THEN <<92, 117, HexDigit((c \div 4096) % 16), HexDigit((c \div 256) % 16),
                HexDigit((c \div 16) % 16), HexDigit(c % 16)>>
    ELSE <<c>>

JsonString(s) == <<34>> \o Join([i \in 1..Len(s) |-> EscapeChar(s[i])]) \o <<34>>

\* separators=(",", ":")
ItemSeparator == <<44>>
KeySeparator == <<58>>

JoinSep(f, sep) == Join([i \in 1..Len(f) |-> IF i = 1 THEN f[i] ELSE sep \o f[i]])

\* json_encoder.encode(v); EncodeDict writes a dict's items in the order given.
RECURSIVE JsonEncode(_), EncodeDict(_)
JsonEncode(v) ==
    IF v.t = "int" THEN IntStr(v.n)
    ELSE IF v.t = "str" THEN JsonString(v.s)
    ELSE IF v.t = "dict" THEN EncodeDict(DictItems(v.items))
    ELSE <<91>>
             \o JoinSep([i \in 1..Len(v.items) |-> JsonEncode(v.items[i].v)], ItemSeparator)
             \o <<93>>

EncodeDict(it) ==
    <<123>>
        \o JoinSep([i \in 1..Len(it) |->
                       JsonString(it[i].k) \o KeySeparator \o JsonEncode(it[i].v)],
                   ItemSeparator)
        \o <<125>>

\* ----------------------------------------------------------- base64 (stdlib)
\* base64.urlsafe_b64encode(b): four characters per three bytes, '=' padded.
urlsafe_b64encode(b) ==
    LET n == Len(b)
        At(i) == IF i <= n THEN b[i] ELSE 0
    IN  [j \in 1..(4 * CeilDiv(n, 3)) |->
            LET g   == 3 * ((j - 1) \div 4)
                pos == (j - 1) % 4
            IN  IF pos = 0 THEN Base64UrlChar(At(g + 1) \div 4)
                ELSE IF pos = 1
                THEN Base64UrlChar((At(g + 1) % 4) * 16 + At(g + 2) \div 16)
                ELSE IF pos = 2
                THEN IF g + 2 > n THEN 61
                     ELSE Base64UrlChar((At(g + 2) % 16) * 4 + At(g + 3) \div 64)
                ELSE IF g + 3 > n THEN 61
                     ELSE Base64UrlChar(At(g + 3) % 64)]

\* bytes.rstrip(b"=")
RECURSIVE RStripPad(_)
RStripPad(s) ==
    IF Len(s) > 0 /\ s[Len(s)] = 61 THEN RStripPad(SubSeq(s, 1, Len(s) - 1)) ELSE s

\* -------------------------------------------------- hashlib, zlib (external)
RECURSIVE SumRange(_, _, _)
SumRange(f, lo, hi) ==
    IF lo > hi THEN 0
    ELSE IF lo = hi THEN f[lo]
    ELSE LET mid == (lo + hi) \div 2
         IN  SumRange(f, lo, mid) + SumRange(f, mid + 1, hi)

\* hashlib.sha256(data).digest(): a stand-in that is a function of the data
\* and always 32 bytes long.
DigestOf(a, b, n) == [i \in 1..32 |-> (a * (2 * i + 1) + b * i + 31 * i + n) % 256]
sha256(data) ==
    DigestOf(SumRange(data, 1, Len(data)) % 65521,
             SumRange([j \in 1..Len(data) |-> (j * data[j]) % 65521], 1, Len(data)) % 65521,
             Len(data))

\* zlib raw DEFLATE (wbits = -15) of data: a stand-in that emits one stored
\* block (a valid raw stream; zlib itself would pick a Huffman block).
deflate_raw(data) ==
    LET n == Len(data)
    IN  <<1, n % 256, n \div 256, 255 - (n % 256), 255 - (n \div 256)>> \o data

\* ----------------------------------------------- cryptography.ec (external)
\* The signature scheme on a small group standing in for the curve's: the
\* subgroup of order q generated by g in the integers mod p.
ToyGroup == [p |-> 23, q |-> 11, g |-> 4]

RECURSIVE ModPow(_, _, _)
ModPow(b, e, m) == IF e = 0 THEN 1 % m ELSE (b * ModPow(b, e - 1, m)) % m

ModInv(a, m) == CHOOSE w \in 1..(m - 1) : (w * a) % m = 1

\* Byte length of a coordinate or scalar of the curve.
CoordLen(curve) == IF curve = "secp384r1" THEN 48 ELSE 32

\* The curve-sized Python int standing for the group value v, as its minimal
\* big-endian bytes, and the group value of such an int.
BigInt(curve, v) == [i \in 1..CoordLen(curve) |-> IF i = 1 THEN v ELSE (7 * i + v) % 256]
SmallInt(n) == n[1]
IsBigInt(curve, n) == Len(n) = CoordLen(curve) /\ n = BigInt(curve, n[1])

\* int.to_bytes(length, "big") raises OverflowError unless the int fits.
Fits(n, length) == Len(n) <= length
to_bytes(n, length) == [i \in 1..(length - Len(n)) |-> 0] \o n

\* private_key.public_key().public_numbers()
PublicNumbers(key) ==
    LET y == ModPow(ToyGroup.g, key.d, ToyGroup.p)
    IN  [curve |-> key.curve, x |-> BigInt(key.curve, y), y |-> BigInt(key.curve, (y * y) % ToyGroup.p)]

\* The integer the signature scheme reduces the SHA-256 digest to.
HashScalar(data) == SumRange(sha256(data), 1, 32) % ToyGroup.q

\* The (r, s) of a signature of data under key with the random nonce k.
SignRSWith(d, h, k, r) ==
    [r |-> r, s |-> (ModInv(k, ToyGroup.q) * (h + d * r)) % ToyGroup.q]
SignRS(key, data, k) ==
    SignRSWith(key.d, HashScalar(data), k, ModPow(ToyGroup.g, k, ToyGroup.p) % ToyGroup.q)

\* The nonces the library would not reject (r and s must be non-zero).
NonZeroRS(rs) == rs.r # 0 /\ rs.s # 0
UsableNonce(key, data, k) == NonZeroRS(SignRS(key, data, k))

\* ASN.1 DER of an INTEGER and of the SEQUENCE (r, s).
DerInteger(n) == LET b == IF n[1] >= 128 THEN <<0>> \o n ELSE n IN <<2, Len(b)>> \o b
encode_dss_signature(r, s) ==
    LET body == DerInteger(r) \o DerInteger(s) IN <<48, Len(body)>> \o body

StripZero(b) == IF Len(b) > 1 /\ b[1] = 0 THEN Tail(b) ELSE b

\* decode_dss_signature(sig): (r, s), or not a DER signature at all.
decode_dss_signature(sig) ==
    LET n  == Len(sig)
        lr == IF n >= 4 THEN sig[4] ELSE 0
        ls == IF n >= 6 + lr THEN sig[6 + lr] ELSE 0
    IN  IF /\ n >= 8
           /\ sig[1] = 48
           /\ sig[2] = n - 2
           /\ sig[3] = 2
           /\ lr >= 1
           /\ n >= 6 + lr
           /\ sig[5 + lr] = 2
           /\ ls >= 1
           /\ n = 6 + lr + ls
        THEN [ok |-> TRUE, r |-> StripZero(SubSeq(sig, 5, 4 + lr)),
              s |-> StripZero(SubSeq(sig, 7 + lr, n))]
        ELSE [ok |-> FALSE, r |-> <<>>, s |-> <<>>]

\* private_key.sign(data, ec.ECDSA(hashes.SHA256())) with nonce k: DER bytes.
EncodeRS(curve, rs) == encode_dss_signature(BigInt(curve, rs.r), BigInt(curve, rs.s))
ec_sign(key, data, k) == EncodeRS(key.curve, SignRS(key, data, k))

\* public_key.verify(signature, data, ec.ECDSA(hashes.SHA256())): TRUE when it
\* returns, FALSE when it raises InvalidSignature.
VerifyRS(y, h, r, s, w) ==
    /\ r \in 1..(ToyGroup.q - 1)
    /\ s \in 1..(ToyGroup.q - 1)
    /\ ((ModPow(ToyGroup.g, (h * w) % ToyGroup.q, ToyGroup.p)
             * ModPow(y, (r * w) % ToyGroup.q, ToyGroup.p)) % ToyGroup.p) % ToyGroup.q = r
VerifyDecoded(pub, sig, data) ==
    /\ sig.ok
    /\ IsBigInt(pub.curve, sig.r)
    /\ IsBigInt(pub.curve, sig.s)
    /\ SmallInt(sig.s) \in 1..(ToyGroup.q - 1)
    /\ VerifyRS(SmallInt(pub.x), HashScalar(data), SmallInt(sig.r), SmallInt(sig.s),
                ModInv(SmallInt(sig.s), ToyGroup.q))
ec_verify(pub, signature_, data) ==
    VerifyDecoded(pub, decode_dss_signature(signature_), data)

\* ------------------------------------------------------- __init__.py: JWK
Ok(v) == [exc |-> "", val |-> v]
Raise(e) == [exc |-> e, val |-> <<>>]

\* JWK(private_key): __init__ stores the key and checks nothing.
JWK(key) == [private_key |-> key]

\* JWK.payload
PayloadOf(pn) ==
    IF ~(Fits(pn.x, 32) /\ Fits(pn.y, 32)) THEN Raise("OverflowError")
    ELSE Ok(JDict(<<Item(<<99, 114, 118>>, JStr(<<80, 45, 50, 53, 54>>)),
                    Item(<<107, 116, 121>>, JStr(<<69, 67>>)),
                    Item(<<120>>, JStr(urlsafe_b64encode(to_bytes(pn.x, 32)))),
                    Item(<<121>>, JStr(urlsafe_b64encode(to_bytes(pn.y, 32))))>>))
JWK_payload(self) == PayloadOf(PublicNumbers(self.private_key))

\* JWK.thumbprint
ThumbprintOf(p) ==
    IF p.exc # "" THEN Raise(p.exc)
    ELSE Ok(urlsafe_b64encode(sha256(JsonEncode(p.val))))
JWK_thumbprint(self) == ThumbprintOf(JWK_payload(self))

\* JWK.export
ExportOf(p, t) ==
    IF p.exc # "" THEN Raise(p.exc)
    ELSE IF t.exc # "" THEN Raise(t.exc)
    ELSE Ok(JDict(p.val.items
                      \o <<Item(<<107, 105, 100>>, JStr(t.val)),
                           Item(<<117, 115, 101>>, JStr(<<115, 105, 103>>)),
                           Item(<<97, 108, 103>>, JStr(<<69, 83, 50, 53, 54>>))>>))
JWK_export(self) == ExportOf(JWK_payload(self), JWK_thumbprint(self))

\* JWK.sign, the library drawing the nonce k: r and s as 32 bytes each.
JoinRS(rs) ==
    IF ~(Fits(rs.r, 32) /\ Fits(rs.s, 32)) THEN Raise("OverflowError")
    ELSE Ok(to_bytes(rs.r, 32) \o to_bytes(rs.s, 32))
JWK_sign(self, data, k) == JoinRS(decode_dss_signature(ec_sign(self.private_key, data, k)))

\* JWK.verify: the signature goes to the library as it is.
JWK_verify(self, signature_, data) ==
    IF ec_verify(PublicNumbers(self.private_key), signature_, data)
    THEN Ok(<<>>)
    ELSE Raise("InvalidSignature")

\* --------------------------------------------- __init__.py: SmartHealthCard
SmartHealthCard(payload_, jwk_) == [payload |-> payload_, jwk |-> jwk_]

\* SmartHealthCard.header
HeaderOf(t) ==
    IF t.exc # "" THEN Raise(t.exc)
    ELSE Ok(JDict(<<Item(<<97, 108, 103>>, JStr(<<69, 83, 50, 53, 54>>)),
                    Item(<<122, 105, 112>>, JStr(<<68, 69, 70>>)),
                    Item(<<116, 121, 112>>, JStr(<<74, 87, 84>>)),
                    Item(<<107, 105, 100>>, JStr(t.val))>>))
SHC_header(self) == HeaderOf(JWK_thumbprint(self.jwk))

\* SmartHealthCard._b64encode
SHC_b64encode(s) == RStripPad(urlsafe_b64encode(s))

\* SmartHealthCard._compressed_payload
SHC_compressed_payload(self) == deflate_raw(JsonEncode(self.payload))

\* SmartHealthCard._body
BodyOf(h, self) ==
    IF h.exc # "" THEN Raise(h.exc)
    ELSE Ok(SHC_b64encode(JsonEncode(h.val)) \o <<46>>
                \o SHC_b64encode(SHC_compressed_payload(self)))
SHC_body(self) == BodyOf(SHC_header(self), self)

\* SmartHealthCard._signature
EncodeSignature(sg) == IF sg.exc # "" THEN Raise(sg.exc) ELSE Ok(SHC_b64encode(sg.val))
SignatureOf(b, self, k) ==
    IF b.exc # "" THEN Raise(b.exc) ELSE EncodeSignature(JWK_sign(self.jwk, b.val, k))
SHC_signature(self, k) == SignatureOf(SHC_body(self), self, k)

\* SmartHealthCard.__bytes__ and __str__ (the token is ASCII)
BytesOf(b, sg) ==
    IF b.exc # "" THEN Raise(b.exc)
    ELSE IF sg.exc # "" THEN Raise(sg.exc)
    ELSE Ok(b.val \o <<46>> \o sg.val)
SHC_str(self, k) == BytesOf(SHC_body(self), SHC_signature(self, k))

\* The nonces the library may draw when the card is rendered.
NonceFor(b, key, k) == b.exc # "" \/ UsableNonce(key, b.val, k)
RenderNonce(self, k) == NonceFor(SHC_body(self), self.jwk.private_key, k)

\* ---------------------------------------------------------- the URI chunker
\* Tokens handed to SmartHealthCardURI in Spec: every one-character token of
\* the alphabet, and every longer token over '-', '.', 'A', 'z'.
SmallTokens ==
    {<<c>> : c \in Alphabet}
        \cup UNION {[1..n -> {45, 46, 65, 122}] : n \in 2..MaxTokenLen}

\* The chunk counts tried on a digit string of length len.
ChunkArgs(len) == {None} \cup {Some(n) : n \in (0 - MaxExcess)..(len + MaxExcess)}

InitChunker ==
    /\ token \in SmallTokens
    /\ NoCard
    /\ NoResults

\* str(SmartHealthCardURI(shc))
UriStr ==
    /\ uri_str' = UriString(token)
    /\ op' = "str"
    /\ exc' = ""
    /\ UNCHANGED <<token, chunks_arg, chunks_out>>
    /\ UNCHANGED cardVars

\* list(SmartHealthCardURI(shc).iterchunks(chunks))
IterChunks ==
    \E arg \in ChunkArgs(Len(ToUri(token))) :
        \E r \in {iterchunks(ToUri(token), arg)} :
            /\ chunks_arg' = arg
            /\ chunks_out' = r.out
            /\ exc' = r.exc
            /\ op' = "iterchunks"
            /\ UNCHANGED <<token, uri_str>>
        /\ UNCHANGED cardVars
            /\ UNCHANGED cardVars

NextChunker == UriStr \/ IterChunks

Spec == InitChunker /\ [][NextChunker]_vars

\* ------------------------------------------------ default chunking, at size
\* A token of n characters running through the whole alphabet.
BigToken(n) == [i \in 1..n |-> Base64UrlChar((i - 1) % 65)]

InitDefault ==
    /\ \E n \in 1..MaxBigTokenLen : token = BigToken(n)
    /\ NoCard
    /\ NoResults

\* list(SmartHealthCardURI(shc).iterchunks()) with the chunk count omitted.
IterChunksOmitted ==
    \E r \in {iterchunks(ToUri(token), None)} :
        /\ chunks_arg' = None
        /\ chunks_out' = r.out
        /\ exc' = r.exc
        /\ op' = "iterchunks"
        /\ UNCHANGED <<token, uri_str>>
        /\ UNCHANGED cardVars

NextDefault == IterChunksOmitted

SpecDefault == InitDefault /\ [][NextDefault]_vars

\* -------------------------------------------------------- the key adapter
Curves == {"secp256r1", "secp256k1", "secp384r1"}
Keys == {[curve |-> c, d |-> d] : c \in Curves, d \in 1..MaxScalar}
Nonces == 1..MaxNonce

\* The data handed to JWK.sign directly: b"" and b"hi".
SignInputs == {<<>>, <<104, 105>>}

\* {"a": 1}
SimplePayload == JDict(<<Item(<<97>>, JInt(1))>>)

InitKey ==
    /\ private_key \in Keys
    /\ jwk = None
    /\ payload = SimplePayload
    /\ token = <<>>
    /\ NoResults

\* jwk = JWK(private_key)
Construct ==
    /\ jwk = None
    /\ jwk' = Some(JWK(private_key))
    /\ op' = "JWK"
    /\ exc' = ""
    /\ UNCHANGED <<uriVars, private_key, payload, kid, jwk_dict, signature, encoded,
                   compressed, prev>>

\* jwk.payload
Payload ==
    /\ jwk # None
    /\ \E r \in {JWK_payload(jwk[1])} :
           /\ exc' = r.exc
           /\ jwk_dict' = IF r.exc = "" THEN r.val ELSE jwk_dict
    /\ op' = "payload"
    /\ UNCHANGED <<uriVars, private_key, jwk, payload, kid, signature, encoded,
                   compressed, prev>>

\* jwk.thumbprint()
Thumbprint ==
    /\ jwk # None
    /\ \E r \in {JWK_thumbprint(jwk[1])} :
           /\ exc' = r.exc
           /\ kid' = IF r.exc = "" THEN r.val ELSE kid
    /\ op' = "thumbprint"
    /\ UNCHANGED <<uriVars, private_key, jwk, payload, jwk_dict, signature, encoded,
                   compressed, prev>>

\* jwk.export()
Export ==
    /\ jwk # None
    /\ \E r \in {JWK_export(jwk[1])} :
           /\ exc' = r.exc
           /\ jwk_dict' = IF r.exc = "" THEN r.val ELSE jwk_dict
    /\ op' = "export"
    /\ UNCHANGED <<uriVars, private_key, jwk, payload, kid, signature, encoded,
                   compressed, prev>>

\* SmartHealthCard(payload, jwk).header
Header ==
    /\ jwk # None
    /\ \E r \in {SHC_header(SmartHealthCard(payload, jwk[1]))} :
           /\ exc' = r.exc
           /\ jwk_dict' = IF r.exc = "" THEN r.val ELSE jwk_dict
    /\ op' = "header"
    /\ UNCHANGED <<uriVars, private_key, jwk, payload, kid, signature, encoded,
                   compressed, prev>>

\* jwk.sign(data)
Sign ==
    /\ jwk # None
    /\ \E data \in SignInputs : \E k \in Nonces :
           /\ UsableNonce(private_key, data, k)
           /\ \E r \in {JWK_sign(jwk[1], data, k)} :
                  /\ exc' = r.exc
                  /\ signature' = IF r.exc = "" THEN r.val ELSE signature
    /\ op' = "sign"
    /\ UNCHANGED <<uriVars, private_key, jwk, payload, kid, jwk_dict, encoded,
                   compressed, prev>>

NextKey == Construct \/ Payload \/ Thumbprint \/ Export \/ Header \/ Sign

SpecKey == InitKey /\ [][NextKey]_vars

\* ---------------------------------------------------------------- the card
\* {"b": "x", "a": [1]}
ListPayload ==
    JDict(<<Item(<<98>>, JStr(<<120>>)), Item(<<97>>, JList(<<JInt(1)>>))>>)

CardPayloads == {SimplePayload, ListPayload}

CardChunkArgs == {None} \cup {Some(n) : n \in 1..MaxCardChunks}

\* The card of the state, and what the last call returned (kept one call back).
Card == SmartHealthCard(payload, jwk[1])
LastCall ==
    [op |-> op, token |-> token, uri_str |-> uri_str, chunks_arg |-> chunks_arg,
     chunks_out |-> chunks_out]

\* jwk = JWK(key); shc = SmartHealthCard(payload, jwk); SmartHealthCardURI(shc)
InitCard ==
    /\ private_key \in {[curve |-> "secp256r1", d |-> d] : d \in 1..MaxScalar}
    /\ jwk = Some(JWK(private_key))
    /\ payload \in CardPayloads
    /\ token = <<>>
    /\ NoResults

\* str(shc)
Render ==
    /\ \E k \in Nonces :
           /\ RenderNonce(Card, k)
           /\ \E r \in {SHC_str(Card, k)} :
                  /\ exc' = r.exc
                  /\ token' = r.val
    /\ op' = "render"
    /\ uri_str' = <<>>
    /\ chunks_arg' = None
    /\ chunks_out' = <<>>
    /\ signature' = <<>>
    /\ prev' = LastCall
    /\ UNCHANGED <<private_key, jwk, payload, kid, jwk_dict, encoded, compressed>>

\* str(SmartHealthCardURI(shc)): _to_uri renders the card.
CardUriStr ==
    /\ \E k \in Nonces :
           /\ RenderNonce(Card, k)
           /\ \E r \in {SHC_str(Card, k)} :
                  /\ exc' = r.exc
                  /\ token' = r.val
                  /\ uri_str' = IF r.exc = "" THEN UriString(r.val) ELSE <<>>
    /\ op' = "str"
    /\ chunks_arg' = None
    /\ chunks_out' = <<>>
    /\ signature' = <<>>
    /\ prev' = LastCall
    /\ UNCHANGED <<private_key, jwk, payload, kid, jwk_dict, encoded, compressed>>

\* list(SmartHealthCardURI(shc).iterchunks(chunks)): _to_uri renders the card.
CardIterChunks ==
    /\ \E k \in Nonces : \E arg \in CardChunkArgs :
           /\ RenderNonce(Card, k)
           /\ \E r \in {SHC_str(Card, k)} : \E c \in {iterchunks(ToUri(r.val), arg)} :
                  /\ exc' = IF r.exc = "" THEN c.exc ELSE r.exc
                  /\ token' = r.val
                  /\ chunks_arg' = arg
                  /\ chunks_out' = IF r.exc = "" THEN c.out ELSE <<>>
    /\ op' = "iterchunks"
    /\ uri_str' = <<>>
    /\ signature' = <<>>
    /\ prev' = LastCall
    /\ UNCHANGED <<private_key, jwk, payload, kid, jwk_dict, encoded, compressed>>

\* The index of a base64url character, and base64.urlsafe_b64decode of an
\* unpadded segment (the caller restores the padding).
Base64UrlIndex(c) == CHOOSE k \in 0..63 : Base64UrlChar(k) = c
urlsafe_b64decode(s) ==
    LET v(i) == IF i <= Len(s) THEN Base64UrlIndex(s[i]) ELSE 0
    IN  [j \in 1..((Len(s) * 3) \div 4) |->
            LET g   == 4 * ((j - 1) \div 3)
                pos == (j - 1) % 3
            IN  IF pos = 0 THEN v(g + 1) * 4 + v(g + 2) \div 16
                ELSE IF pos = 1 THEN (v(g + 2) % 16) * 16 + v(g + 3) \div 4
                ELSE (v(g + 3) % 4) * 64 + v(g + 4)]

\* The parts of a token "<header>.<payload>.<signature>".
Dots(tok) == {i \in 1..Len(tok) : tok[i] = 46}
LastDot(tok) == CHOOSE i \in Dots(tok) : \A j \in Dots(tok) : j <= i
TokenBody(tok) == SubSeq(tok, 1, LastDot(tok) - 1)
TokenSignature(tok) == urlsafe_b64decode(SubSeq(tok, LastDot(tok) + 1, Len(tok)))

\* A signature r || s re-encoded as the DER the library itself produces.
RECURSIVE StripZeros(_)
StripZeros(b) == IF Len(b) > 1 /\ b[1] = 0 THEN StripZeros(Tail(b)) ELSE b
RawToDer(sig) ==
    encode_dss_signature(StripZeros(SubSeq(sig, 1, Len(sig) \div 2)),
                         StripZeros(SubSeq(sig, Len(sig) \div 2 + 1, Len(sig))))

\* jwk.verify(signature, body) on the parts of the token just rendered, the
\* signature as the token carries it or re-encoded as DER.
Verify ==
    /\ op \in {"render", "verify"}
    /\ token # <<>>
    /\ \E der \in BOOLEAN :
           \E raw \in {TokenSignature(token)} :
               \E sig \in {IF der THEN RawToDer(raw) ELSE raw} :
                   /\ signature' = sig
                   /\ exc' = JWK_verify(jwk[1], sig, TokenBody(token)).exc
    /\ op' = "verify"
    /\ prev' = LastCall
    /\ UNCHANGED <<uriVars, private_key, jwk, payload, kid, jwk_dict, encoded, compressed>>

NextCard == Render \/ CardUriStr \/ CardIterChunks \/ Verify

SpecCard == InitCard /\ [][NextCard]_vars

\* ------------------------------------------------------- canonical encoding
\* The i-th key name: "a", "ab", "c", "ad", "e", ...
KeyName(i) == IF i % 2 = 1 THEN <<96 + i>> ELSE <<97, 96 + i>>

\* {"y": [1, "v"], "x": 2}, in either insertion order.
NestedDict(o) ==
    LET y == Item(<<121>>, JList(<<JInt(1), JStr(<<118>>)>>))
        x == Item(<<120>>, JInt(2))
    IN  JDict(IF o = 1 THEN <<y, x>> ELSE <<x, y>>)

\* The value under the i-th key: an int, the nested dict or a str.
ValueAt(i, o) ==
    IF i % 3 = 1 THEN JInt(i)
    ELSE IF i % 3 = 2 THEN NestedDict(o)
    ELSE JStr(<<118, 48 + (i % 10)>>)

\* The insertion orders of every choice of keys.
Arrangements ==
    UNION {{f \in [1..n -> 1..MaxKeys] : \A a \in 1..n : \A b \in 1..n : a # b => f[a] # f[b]}
               : n \in 0..MaxKeys}

JsonPayloads ==
    {JDict([j \in 1..Len(f) |-> Item(KeyName(f[j]), ValueAt(f[j], o))])
         : f \in Arrangements, o \in 1..2}

InitJson ==
    /\ payload \in JsonPayloads
    /\ private_key = NoKey
    /\ jwk = None
    /\ token = <<>>
    /\ NoResults

\* json_encoder.encode(self.payload).encode("utf-8")
EncodePayload ==
    /\ encoded' = JsonEncode(payload)
    /\ op' = "encode"
    /\ exc' = ""
    /\ UNCHANGED <<uriVars, private_key, jwk, payload, kid, jwk_dict, signature,
                   compressed, prev>>

\* SmartHealthCard(payload, jwk)._compressed_payload()
CompressPayload ==
    /\ compressed' = SHC_compressed_payload([payload |-> payload, jwk |-> jwk])
    /\ op' = "compress"
    /\ exc' = ""
    /\ UNCHANGED <<uriVars, private_key, jwk, payload, kid, jwk_dict, signature,
                   encoded, prev>>

NextJson == EncodePayload \/ CompressPayload

SpecJson == InitJson /\ [][NextJson]_vars

\* ------------------------------------------------------ reading the output
\* The text of s after its k-th '/' from position i on.
RECURSIVE AfterSlashes(_, _, _)
AfterSlashes(s, i, k) ==
    IF k = 0 THEN SubSeq(s, i, Len(s))
    ELSE IF i > Len(s) THEN <<>>
    ELSE AfterSlashes(s, i + 1, IF s[i] = 47 THEN k - 1 ELSE k)

\* The segment field of a chunk "shc:/<index>/<total>/<segment>".
Segment(chunk) == AfterSlashes(chunk, 1, 3)

HasPrefix(s, p) == Len(s) >= Len(p) /\ SubSeq(s, 1, Len(p)) = p

IsDigit(c) == c \in 48..57

\* The digit string behind "shc:/<digits>".
DigitsOf(s) == SubSeq(s, Len(ShcPrefix) + 1, Len(s))

\* Reading a digit string back two digits at a time, adding 45.
DecodeDigits(d) ==
    [i \in 1..(Len(d) \div 2) |-> 10 * (d[2 * i - 1] - 48) + (d[2 * i] - 48) + 45]

UriLen == Len(ToUri(token))

\* iterchunks was called with a chunk count in 1..len(uri).
ValidCountCall ==
    /\ op = "iterchunks"
    /\ chunks_arg # None
    /\ chunks_arg[1] >= 1
    /\ chunks_arg[1] <= UriLen

\* C1: for a digit string of length L >= 1 and 1 <= N <= L, iterchunks(N)
\* yields exactly N strings, the i-th beginning with "shc:/i/N/", and the
\* segments concatenated in index order are the digit string.
ChunkReconstruction ==
    ValidCountCall =>
        /\ exc = ""
        /\ Len(chunks_out) = chunks_arg[1]
        /\ \A i \in 1..Len(chunks_out) :
               HasPrefix(chunks_out[i],
                         ShcPrefix \o IntStr(i) \o Slash
                             \o IntStr(chunks_arg[1]) \o Slash)
        /\ Join([i \in 1..Len(chunks_out) |-> Segment(chunks_out[i])])
               = ToUri(token)

\* C1 witness: a count that does not divide the length was used.
ChunkReconstructionWitness ==
    /\ ValidCountCall
    /\ chunks_arg[1] = 4
    /\ UriLen = 6
    /\ Len(chunks_out) = 4

\* C2: with 1 <= N <= L every chunk but the last has a segment of exactly
\* ceil(L / N) digits; only the last may be shorter.
OnlyLastChunkShorter ==
    ValidCountCall =>
        \A i \in 1..(Len(chunks_out) - 1) :
            Len(Segment(chunks_out[i])) = CeilDiv(UriLen, chunks_arg[1])

\* C8: a chunk count <= 0 or > len(uri) is rejected with an
\* invalid-chunk-count error and yields nothing.
BadChunkCountRejected ==
    (/\ op = "iterchunks"
     /\ chunks_arg # None
     /\ (chunks_arg[1] <= 0 \/ chunks_arg[1] > UriLen))
        => (exc = "InvalidChunkCountError" /\ chunks_out = <<>>)

\* C3: with the chunk count omitted, iterchunks yields ceil(L / 1191) chunks,
\* each segment non-empty and at most 1191 digits long.
DefaultChunksBounded ==
    (op = "iterchunks" /\ chunks_arg = None) =>
        /\ exc = ""
        /\ Len(chunks_out) = CeilDiv(UriLen, MAX_CHUNK_SIZE)
        /\ \A i \in 1..Len(chunks_out) :
               /\ Len(Segment(chunks_out[i])) >= 1
               /\ Len(Segment(chunks_out[i])) <= MAX_CHUNK_SIZE

\* C3 witness: a digit string that needs three chunks was split by default.
DefaultChunksWitness ==
    /\ op = "iterchunks"
    /\ chunks_arg = None
    /\ Len(chunks_out) = 3
    /\ UriLen > 2 * MAX_CHUNK_SIZE

\* C9: every character c of the alphabet becomes the two decimal digits of
\* code_point(c) - 45, distinct characters give distinct pairs, the digit
\* string is twice as long as the token and reads back to the token.
DigitMapping ==
    op = "str" =>
        LET d == DigitsOf(uri_str)
        IN  /\ HasPrefix(uri_str, ShcPrefix)
            /\ Len(d) = 2 * Len(token)
            /\ \A i \in 1..Len(d) : IsDigit(d[i])
            /\ \A i \in 1..Len(token) :
                   /\ token[i] - 45 \in 0..99
                   /\ 10 * (d[2 * i - 1] - 48) + (d[2 * i] - 48) = token[i] - 45
            /\ DecodeDigits(d) = token
            /\ \A c \in Alphabet : \A e \in Alphabet :
                   c # e => SubSeq(UriString(<<c>>), 6, 7) # SubSeq(UriString(<<e>>), 6, 7)

\* C9 witness: a token with a character below '7' (a one-digit value) was
\* turned into digits.
DigitMappingWitness ==
    /\ op = "str"
    /\ Len(token) >= 2
    /\ token[1] = 45
    /\ Len(uri_str) = 5 + 2 * Len(token)

\* The segments of the chunks joined in index order.
JoinedSegments(out) == Join([i \in 1..Len(out) |-> Segment(out[i])])

\* C4: rendering is deterministic: two renders of the same card give the same
\* token, so the digit string behind str(uri) is the one a later iterchunks
\* splits, and repeated iterchunks calls yield the same chunks.
RenderDeterministic ==
    /\ (prev.token # <<>> /\ token # <<>>) => prev.token = token
    /\ (prev.op = "str" /\ op = "iterchunks" /\ exc = "")
           => DigitsOf(prev.uri_str) = JoinedSegments(chunks_out)
    /\ (prev.op = "iterchunks" /\ op = "iterchunks" /\ prev.chunks_arg = chunks_arg)
           => prev.chunks_out = chunks_out

\* C5: the third segment of the rendered token is the 64-byte r || s signature
\* over the first two segments, and JWK.verify of that 64-byte signature over
\* those bytes succeeds with the same key.
VerifyInvertsSign ==
    /\ (op = "render" /\ exc = "") =>
           /\ Len(TokenSignature(token)) = 64
           /\ ec_verify(PublicNumbers(private_key), RawToDer(TokenSignature(token)),
                        TokenBody(token))
    /\ (op = "verify" /\ signature = TokenSignature(token)) => exc = ""

\* The value under a key of a dict.
DictGet(d, key) == d.items[CHOOSE i \in 1..Len(d.items) : d.items[i].k = key].v

Unpadded(s) == \A i \in 1..Len(s) : s[i] # 61

\* base64url of the SHA-256 of the canonical JSON of payload(), padding removed.
UnpaddedThumbprint ==
    RStripPad(urlsafe_b64encode(sha256(JsonEncode(JWK_payload(jwk[1]).val))))

\* C6: thumbprint() is the base64url SHA-256 of the canonical JSON of payload()
\* with no '=' retained, and that string is the 'kid' of header and export().
ThumbprintUnpadded ==
    /\ (op = "thumbprint" /\ exc = "") => (Unpadded(kid) /\ kid = UnpaddedThumbprint)
    /\ (op \in {"header", "export"} /\ exc = "")
           => DictGet(jwk_dict, <<107, 105, 100>>).s = UnpaddedThumbprint

\* C7: JWK(key) with a key that is not on P-256 fails at construction with an
\* invalid-curve error, so no JWK backed by such a key exists.
NonP256KeyRejected ==
    /\ (op = "JWK" /\ private_key.curve # "secp256r1")
           => (exc = "InvalidCurveError" /\ jwk = None)
    /\ jwk # None => jwk[1].private_key.curve = "secp256r1"

\* Two values that differ at most in the insertion order of their dicts.
RECURSIVE SameValue(_, _)
SameValue(a, b) ==
    IF a.t # b.t THEN FALSE
    ELSE IF a.t = "dict"
    THEN /\ Len(a.items) = Len(b.items)
         /\ \A i \in 1..Len(a.items) : \E j \in 1..Len(b.items) :
                /\ a.items[i].k = b.items[j].k
                /\ SameValue(a.items[i].v, b.items[j].v)
    ELSE IF a.t = "list"
    THEN /\ Len(a.items) = Len(b.items)
         /\ \A i \in 1..Len(a.items) : SameValue(a.items[i].v, b.items[i].v)
    ELSE a = b

\* The closing quote of the string whose text starts at i.
RECURSIVE StringEnd(_, _)
StringEnd(s, i) ==
    IF i > Len(s) THEN i
    ELSE IF s[i] = 92 THEN StringEnd(s, i + 2)
    ELSE IF s[i] = 34 THEN i
    ELSE StringEnd(s, i + 1)

\* Reading JSON text from position i: every object's keys are strictly
\* ascending and nothing but brackets, ',', ':' after a key, digits, '-' and
\* strings occurs.  stack holds the last key of each open container.
RECURSIVE ScanKeys(_, _, _)
ScanKeys(s, i, stack) ==
    IF i > Len(s) THEN stack = <<>>
    ELSE IF s[i] \in {123, 91} THEN ScanKeys(s, i + 1, <<None>> \o stack)
    ELSE IF s[i] \in {125, 93} THEN stack # <<>> /\ ScanKeys(s, i + 1, Tail(stack))
    ELSE IF s[i] = 34
    THEN LET j == StringEnd(s, i + 1)
         IN  IF j < Len(s) /\ s[j + 1] = 58
             THEN /\ stack # <<>>
                  /\ (Head(stack) = None
                          \/ StrLess(Head(stack)[1], SubSeq(s, i + 1, j - 1)))
                  /\ ScanKeys(s, j + 2, <<Some(SubSeq(s, i + 1, j - 1))>> \o Tail(stack))
             ELSE ScanKeys(s, j + 1, stack)
    ELSE IF s[i] \in ({44, 45} \cup 48..57) THEN ScanKeys(s, i + 1, stack)
    ELSE FALSE

====
